---------------------------- MODULE Spec2Model ----------------------------
(***************************************************************************)
(* Piecewise parabolic reconstruction (src/recon/ppm_simple2.hpp): the     *)
(* point kernel PPM and the three directional sweep drivers                *)
(* PiecewiseParabolicX1/X2/X3.                                             *)
(*                                                                         *)
(* Real is modelled by exact rationals [n |-> numerator, d |-> denominator]*)
(* kept in lowest terms with d > 0, so that equality of values is equality *)
(* of records.  Every arithmetic operation of the kernel is carried out in *)
(* the order and grouping of the source; rounding of IEEE doubles is not   *)
(* modelled.                                                               *)
(***************************************************************************)
EXTENDS Integers, Sequences, FiniteSets, TLC

VARIABLES
  stencil,   \* kernel run: the five cell averages handed to PPM
  pc,        \* kernel run: "call" before PPM runs, "done" after it returned
  loc,       \* kernel run: outputs and locals of the PPM call that returned
  mirror,    \* kernel run: outputs and locals of PPM on the reversed stencil
  dir,       \* sweep: 1, 2 or 3 for PiecewiseParabolicX1, X2, X3 (0: no sweep)
  il,        \* sweep: first index of the inner loop
  iu,        \* sweep: last index of the inner loop
  q,         \* sweep: the field array q(n, k, j, i)
  ql,        \* sweep: left-state buffer (n, i)
  qr,        \* sweep: right-state buffer (n, i)
  lane,      \* sweep: lane[i] = number of variables n the iteration i has done
  trace      \* sweep: history of kernel invocations, their reads and writes

vars == <<stencil, pc, loc, mirror, dir, il, iu, q, ql, qr, lane, trace>>
kernelVars == <<stencil, pc, loc, mirror>>
sweepVars == <<dir, il, iu, q, ql, qr, lane, trace>>

(***************************************************************************)
(* Bounds of the model.                                                    *)
(***************************************************************************)
\* cell averages of a kernel stencil are drawn from -MaxQ .. MaxQ
MaxQ == 3
\* number of variables of the field array, q.GetDim(4)
NVar == 2
\* number of interior cells is..ie of a line
NCells == 2
\* number of different field arrays tried
NSeeds == 2

(***************************************************************************)
(* Real arithmetic.                                                        *)
(***************************************************************************)
RECURSIVE GCD(_, _)
GCD(a, b) == IF b = 0 THEN a ELSE GCD(b, a % b)

IAbs(x) == IF x < 0 THEN -x ELSE x

\* the rational n/d (d # 0) in lowest terms with positive denominator
Rat(n, d) ==
  LET g == GCD(IAbs(n), IAbs(d))
      s == IF d < 0 THEN -1 ELSE 1
  IN  [n |-> (s * n) \div g, d |-> (s * d) \div g]

R(i) == [n |-> i, d |-> 1]

Add(x, y) == Rat(x.n * y.d + y.n * x.d, x.d * y.d)
Sub(x, y) == Rat(x.n * y.d - y.n * x.d, x.d * y.d)
Mul(x, y) == Rat(x.n * y.n, x.d * y.d)
Div(x, y) == Rat(x.n * y.d, x.d * y.n)
Lt(x, y) == x.n * y.d < y.n * x.d
Le(x, y) == x.n * y.d <= y.n * x.d
abs(x) == [n |-> IAbs(x.n), d |-> x.d]
min(x, y) == IF Lt(y, x) THEN y ELSE x
max(x, y) == IF Lt(x, y) THEN y ELSE x

Zero == R(0)

\* the sign function used by the limiters: zero is a sign of its own
SIGN(x) == IF x.n < 0 THEN R(-1) ELSE IF x.n > 0 THEN R(1) ELSE Zero

(***************************************************************************)
(* Constants of PPM.                                                       *)
(***************************************************************************)
C2 == Rat(5, 4)
c1i == Rat(1, 2)
c2i == Rat(1, 2)
c3i == Rat(1, 2)
c4i == Rat(1, 2)
c5i == Rat(1, 6)
\* faulty variant: the sign of the weight 1/6 lost
c6i_positive == Rat(1, 6)
c6i == Rat(-1, 6)

\* 1.0e-12 is 1 / (Million * Million)
Million == 1000000

\* x > (1.0e-12) * m for x >= 0, m >= 0.  With integers X = x.n * m.d and
\* M = m.n * x.d this is X * 10^12 > M, that is X > floor(M / 10^12).
ExceedsRoundoff(x, m) ==
  x.n * m.d > ((m.n * x.d) \div Million) \div Million

\* rho <= 1.0 - 1.0e-12.  With rho = n/d this is (d - n) * 10^12 >= d, that
\* is d - n >= ceiling(d / 10^12).
LimitHasEffect(rho) ==
  rho.d - rho.n >= (((rho.d - 1) \div Million) \div Million) + 1

\* faulty variant: dph_ip1 built from dd_im1 where the source has dd_ip1
InterfaceAverages_slip(q_im2, q_im1, q_i, q_ip1, q_ip2) ==
  LET qa == Sub(q_i, q_im1)
      qb == Sub(q_ip1, q_i)
      dd_im1 == Add(Mul(c1i, qa), Mul(c2i, Sub(q_im1, q_im2)))
      dd == Add(Mul(c1i, qb), Mul(c2i, qa))
  IN  [dph |-> Add(Add(Mul(c3i, q_im1), Mul(c4i, q_i)),
                   Add(Mul(c5i, dd_im1), Mul(c6i, dd))),
       dph_ip1 |-> Add(Add(Mul(c3i, q_i), Mul(c4i, q_ip1)),
                       Add(Mul(c5i, dd), Mul(c6i, dd_im1)))]

(***************************************************************************)
(* Step 1: unlimited interface averages at i-1/2 and i+1/2 (CW eq 1.6).    *)
(***************************************************************************)
InterfaceAverages(q_im2, q_im1, q_i, q_ip1, q_ip2) ==
  LET qa == Sub(q_i, q_im1)
      qb == Sub(q_ip1, q_i)
      dd_im1 == Add(Mul(c1i, qa), Mul(c2i, Sub(q_im1, q_im2)))
      dd == Add(Mul(c1i, qb), Mul(c2i, qa))
      dd_ip1 == Add(Mul(c1i, Sub(q_ip2, q_ip1)), Mul(c2i, qb))
  IN  [dph |-> Add(Add(Mul(c3i, q_im1), Mul(c4i, q_i)),
                   Add(Mul(c5i, dd_im1), Mul(c6i, dd))),
       dph_ip1 |-> Add(Add(Mul(c3i, q_i), Mul(c4i, q_ip1)),
                       Add(Mul(c5i, dd), Mul(c6i, dd_ip1)))]

(***************************************************************************)
(* Step 2a: second differences of the cell averages (CD eq 85a, no 1/2).   *)
(***************************************************************************)
SecondDifference(q_lo, q_mid, q_hi) ==
  Sub(Add(q_lo, q_hi), Mul(R(2), q_mid))

\* faulty variant: the extremum at the face i-1/2 is detected but dph is not replaced
LimitFaceMinus_kept(q_im1, q_i, dph, d2qc_im1, d2qc) ==
  LET qa_tmp == Sub(dph, q_im1)
      qb_tmp == Sub(q_i, dph)
      qa == Mul(R(3), Sub(Add(q_im1, q_i), Mul(R(2), dph)))
      qb == d2qc_im1
      qc == d2qc
      qd == IF SIGN(qa) = SIGN(qb) /\ SIGN(qa) = SIGN(qc)
            THEN Mul(SIGN(qa),
                     min(Mul(C2, abs(qb)), min(Mul(C2, abs(qc)), abs(qa))))
            ELSE Zero
      extremum == Lt(Mul(qa_tmp, qb_tmp), Zero)
  IN  [dph |-> dph, extremum |-> extremum, qd |-> qd]

(***************************************************************************)
(* Step 2a at the face i-1/2: q_lo = q_im1, q_hi = q_i, qb = d2qc_im1,     *)
(* qc = d2qc.  The result holds the (possibly replaced) face value dph,    *)
(* whether a local extremum was detected at the face, and qd.              *)
(***************************************************************************)
LimitFaceMinus(q_im1, q_i, dph, d2qc_im1, d2qc) ==
  LET qa_tmp == Sub(dph, q_im1)
      qb_tmp == Sub(q_i, dph)
      qa == Mul(R(3), Sub(Add(q_im1, q_i), Mul(R(2), dph)))
      qb == d2qc_im1
      qc == d2qc
      qd == IF SIGN(qa) = SIGN(qb) /\ SIGN(qa) = SIGN(qc)
            THEN Mul(SIGN(qa),
                     min(Mul(C2, abs(qb)), min(Mul(C2, abs(qc)), abs(qa))))
            ELSE Zero
      dph_tmp == Sub(Mul(Rat(1, 2), Add(q_im1, q_i)), Div(qd, R(6)))
      extremum == Lt(Mul(qa_tmp, qb_tmp), Zero)
  IN  [dph |-> IF extremum THEN dph_tmp ELSE dph, extremum |-> extremum,
       qd |-> qd]

(***************************************************************************)
(* Step 2a at the face i+1/2: q_lo = q_i, q_hi = q_ip1, qb = d2qc,         *)
(* qc = d2qc_ip1.  The result holds the (possibly replaced) dph_ip1,       *)
(* whether a local extremum was detected at the face, and qd.              *)
(***************************************************************************)
LimitFacePlus(q_i, q_ip1, dph_ip1, d2qc, d2qc_ip1) ==
  LET qa_tmp == Sub(dph_ip1, q_i)
      qb_tmp == Sub(q_ip1, dph_ip1)
      qa == Mul(R(3), Sub(Add(q_i, q_ip1), Mul(R(2), dph_ip1)))
      qb == d2qc
      qc == d2qc_ip1
      qd == IF SIGN(qa) = SIGN(qb) /\ SIGN(qa) = SIGN(qc)
            THEN Mul(SIGN(qa),
                     min(Mul(C2, abs(qb)), min(Mul(C2, abs(qc)), abs(qa))))
            ELSE Zero
      dphip1_tmp == Sub(Mul(Rat(1, 2), Add(q_i, q_ip1)), Div(qd, R(6)))
      extremum == Lt(Mul(qa_tmp, qb_tmp), Zero)
  IN  [dph_ip1 |-> IF extremum THEN dphip1_tmp ELSE dph_ip1,
       extremum |-> extremum, qd |-> qd]

\* faulty variant: the sign of d2qc_im1 is left out of the smooth-extremum test
LimitedCurvature_noqa(d2qc_im1, d2qc, d2qc_ip1, d2qf) ==
  LET qa == d2qc_im1
      qb == d2qc
      qc == d2qc_ip1
      qd == d2qf
  IN  IF SIGN(qb) = SIGN(qc) /\ SIGN(qb) = SIGN(qd)
      THEN Mul(SIGN(qd), min(min(Mul(C2, abs(qa)), Mul(C2, abs(qb))),
                             min(Mul(C2, abs(qc)), abs(qd))))
      ELSE Zero

(***************************************************************************)
(* Step 4: limited second derivative qe (CS eq 22) and the limiter ratio   *)
(* rho (MC eq 27) with its roundoff guard.                                 *)
(***************************************************************************)
LimitedCurvature(d2qc_im1, d2qc, d2qc_ip1, d2qf) ==
  LET qa == d2qc_im1
      qb == d2qc
      qc == d2qc_ip1
      qd == d2qf
  IN  IF SIGN(qa) = SIGN(qb) /\ SIGN(qa) = SIGN(qc) /\ SIGN(qa) = SIGN(qd)
      THEN Mul(SIGN(qd), min(min(Mul(C2, abs(qa)), Mul(C2, abs(qb))),
                             min(Mul(C2, abs(qc)), abs(qd))))
      ELSE Zero

\* whether the second derivative is above roundoff error (line 141)
AboveRoundoff(q_im2, q_im1, q_i, q_ip1, q_ip2, qd) ==
  LET qa == max(abs(q_im1), abs(q_im2))
      qb == max(max(abs(q_i), abs(q_ip1)), abs(q_ip2))
  IN  ExceedsRoundoff(abs(qd), max(qa, qb))

\* faulty variant: rho starts at 1.0 instead of 0.0
LimiterRatio_one(q_im2, q_im1, q_i, q_ip1, q_ip2, qe, qd) ==
  IF AboveRoundoff(q_im2, q_im1, q_i, q_ip1, q_ip2, qd)
  THEN Div(qe, qd)
  ELSE R(1)

LimiterRatio(q_im2, q_im1, q_i, q_ip1, q_ip2, qe, qd) ==
  IF AboveRoundoff(q_im2, q_im1, q_i, q_ip1, q_ip2, qd)
  THEN Div(qe, qd)
  ELSE Zero

(***************************************************************************)
(* Step 4: the branch taken and the limited states qminus, qplus.          *)
(*   "rescale"  local extremum, rho <= 1 - 1e-12: states rescaled by rho   *)
(*   "keep"     local extremum, rho above 1 - 1e-12: states unchanged      *)
(*   "clip"     no extremum: one-sided overshoot clipping                  *)
(***************************************************************************)
LimiterBranch(qa_tmp, qb_tmp, rho) ==
  IF Le(qa_tmp, Zero) \/ Le(qb_tmp, Zero)
  THEN IF LimitHasEffect(rho) THEN "rescale" ELSE "keep"
  ELSE "clip"

\* faulty variant: the minus state is clipped only beyond three times the plus one
ClipMinus_triple(dqf_minus, dqf_plus) ==
  Le(Mul(R(3), abs(dqf_plus)), abs(dqf_minus))

ClipMinus(dqf_minus, dqf_plus) ==
  Le(Mul(R(2), abs(dqf_plus)), abs(dqf_minus))

ClipPlus(dqf_minus, dqf_plus) ==
  Le(Mul(R(2), abs(dqf_minus)), abs(dqf_plus))

\* faulty variant: tmp2_m built from dqf_minus where the source has dqf_plus
LimitedStates_slip(q_i, dph, dph_ip1, dqf_minus, dqf_plus, rho, branch) ==
  LET tmp_m == Sub(q_i, Mul(rho, dqf_minus))
      tmp_p == Add(q_i, Mul(rho, dqf_plus))
      tmp2_m == Sub(q_i, Mul(R(2), dqf_minus))
      tmp2_p == Add(q_i, Mul(R(2), dqf_minus))
      qminus == CASE branch = "rescale" -> tmp_m
                  [] branch = "keep" -> dph
                  [] OTHER -> IF ClipMinus(dqf_minus, dqf_plus) THEN tmp2_m
                              ELSE dph
      qplus == CASE branch = "rescale" -> tmp_p
                 [] branch = "keep" -> dph_ip1
                 [] OTHER -> IF ClipPlus(dqf_minus, dqf_plus) THEN tmp2_p
                             ELSE dph_ip1
  IN  [qminus |-> qminus, qplus |-> qplus, tmp_m |-> tmp_m, tmp_p |-> tmp_p]

LimitedStates(q_i, dph, dph_ip1, dqf_minus, dqf_plus, rho, branch) ==
  LET tmp_m == Sub(q_i, Mul(rho, dqf_minus))
      tmp_p == Add(q_i, Mul(rho, dqf_plus))
      tmp2_m == Sub(q_i, Mul(R(2), dqf_plus))
      tmp2_p == Add(q_i, Mul(R(2), dqf_minus))
      qminus == CASE branch = "rescale" -> tmp_m
                  [] branch = "keep" -> dph
                  [] OTHER -> IF ClipMinus(dqf_minus, dqf_plus) THEN tmp2_m
                              ELSE dph
      qplus == CASE branch = "rescale" -> tmp_p
                 [] branch = "keep" -> dph_ip1
                 [] OTHER -> IF ClipPlus(dqf_minus, dqf_plus) THEN tmp2_p
                             ELSE dph_ip1
  IN  [qminus |-> qminus, qplus |-> qplus, tmp_m |-> tmp_m, tmp_p |-> tmp_p]

(***************************************************************************)
(* PPM(): the kernel.  The result holds the two outputs ql_ip1 and qr_i    *)
(* and the values of the kernel's locals when it returns.                  *)
(***************************************************************************)
PPMStage4(q_im2, q_im1, q_i, q_ip1, q_ip2, ua, d2qc_im1, d2qc, d2qc_ip1, fm, fp) ==
  LET dph == fm.dph
      dph_ip1 == fp.dph_ip1
      d2qf == Mul(R(6), Sub(Add(dph, dph_ip1), Mul(R(2), q_i)))
      dqf_minus == Sub(q_i, dph)
      dqf_plus == Sub(dph_ip1, q_i)
      qa_tmp == Mul(dqf_minus, dqf_plus)
      qb_tmp == Mul(Sub(q_ip1, q_i), Sub(q_i, q_im1))
      qe == LimitedCurvature(d2qc_im1, d2qc, d2qc_ip1, d2qf)
      rho == LimiterRatio(q_im2, q_im1, q_i, q_ip1, q_ip2, qe, d2qf)
      branch == LimiterBranch(qa_tmp, qb_tmp, rho)
      lim == LimitedStates(q_i, dph, dph_ip1, dqf_minus, dqf_plus, rho, branch)
  IN  [ql_ip1 |-> lim.qplus, qr_i |-> lim.qminus,
       dph_cw |-> ua.dph, dph_ip1_cw |-> ua.dph_ip1,
       dph |-> dph, dph_ip1 |-> dph_ip1,
       ext_m |-> fm.extremum, qd_m |-> fm.qd,
       ext_p |-> fp.extremum, qd_p |-> fp.qd,
       d2qc_im1 |-> d2qc_im1, d2qc |-> d2qc, d2qc_ip1 |-> d2qc_ip1,
       d2qf |-> d2qf, dqf_minus |-> dqf_minus, dqf_plus |-> dqf_plus,
       qa_tmp |-> qa_tmp, qb_tmp |-> qb_tmp, qe |-> qe, rho |-> rho,
       tmp_m |-> lim.tmp_m, tmp_p |-> lim.tmp_p,
       guarded |-> ~AboveRoundoff(q_im2, q_im1, q_i, q_ip1, q_ip2, d2qf),
       branch |-> branch,
       clip_m |-> branch = "clip" /\ ClipMinus(dqf_minus, dqf_plus),
       clip_p |-> branch = "clip" /\ ClipPlus(dqf_minus, dqf_plus)]

PPM(q_im2, q_im1, q_i, q_ip1, q_ip2) ==
  LET ua == InterfaceAverages(q_im2, q_im1, q_i, q_ip1, q_ip2)
      d2qc_im1 == SecondDifference(q_im2, q_im1, q_i)
      d2qc == SecondDifference(q_im1, q_i, q_ip1)
      d2qc_ip1 == SecondDifference(q_i, q_ip1, q_ip2)
      fm == LimitFaceMinus(q_im1, q_i, ua.dph, d2qc_im1, d2qc)
      fp == LimitFacePlus(q_i, q_ip1, ua.dph_ip1, d2qc, d2qc_ip1)
  IN  PPMStage4(q_im2, q_im1, q_i, q_ip1, q_ip2, ua, d2qc_im1, d2qc,
                d2qc_ip1, fm, fp)

(***************************************************************************)
(* Kernel run: PPM applied to one stencil, then to the reversed stencil.   *)
(***************************************************************************)
Values == (-MaxQ) .. MaxQ

NoLocals == [branch |-> "none"]

Reverse(s) == [m \in 1 .. 5 |-> s[6 - m]]

Kernel(s) == PPM(R(s[1]), R(s[2]), R(s[3]), R(s[4]), R(s[5]))

NoSweep ==
  /\ dir = 0 /\ il = 0 /\ iu = -1
  /\ q = <<>> /\ ql = <<>> /\ qr = <<>> /\ lane = <<>> /\ trace = <<>>

InitPPM ==
  /\ stencil \in [1 .. 5 -> Values]
  /\ pc = "call"
  /\ loc = NoLocals
  /\ mirror = NoLocals
  /\ NoSweep

Call ==
  /\ pc = "call"
  /\ loc' = Kernel(stencil)
  /\ pc' = "done"
  /\ UNCHANGED <<stencil, mirror>>
  /\ UNCHANGED sweepVars

Reflect ==
  /\ pc = "done"
  /\ mirror = NoLocals
  /\ mirror' = loc
  /\ stencil' = Reverse(stencil)
  /\ loc' = NoLocals
  /\ pc' = "call"
  /\ UNCHANGED sweepVars

NextPPM == Call \/ Reflect

SpecPPM == InitPPM /\ [][NextPPM]_vars

(***************************************************************************)
(* Sweep: one call of PiecewiseParabolicX1, X2 or X3 on a field array.     *)
(***************************************************************************)
\* the stencil reaches Halo cells to either side of its centre
Halo == 2

Vars == 0 .. NVar - 1
\* interior cells of a line are is .. ie; the field array holds Halo + 2
\* further cells on either side
is == Halo + 2
ie == is + NCells - 1
Line == 0 .. ie + Halo + 2
\* the two transverse axes hold the cells of one stencil
Cross == 0 .. 2 * Halo
\* the arguments k and j of the call
kc == Halo
jc == Halo

Cells == Vars \X Cross \X Cross \X Line
Slots == Vars \X Line

\* content of a buffer cell no invocation has written
Unwritten == [n |-> 0, d |-> 0]

\* the field arrays tried: cell averages in -MaxQ .. MaxQ
FieldOf(seed) ==
  [c \in Cells |->
     (((seed + 1) * c[4] * c[4] + c[3] * c[3] * c[3] + 2 * c[2] * c[2]
        + c[1] * (c[4] + c[3] + c[2]) + seed) % (2 * MaxQ + 1)) - MaxQ]

PPMAt(c_im2, c_im1, c_i, c_ip1, c_ip2) ==
  PPM(R(q[c_im2]), R(q[c_im1]), R(q[c_i]), R(q[c_ip1]), R(q[c_ip2]))

\* the cells of q the lambda of each driver hands to PPM for (n, k, j, i)
StencilX1(n, k, j, i) ==
  <<<<n, k, j, i - 2>>, <<n, k, j, i - 1>>, <<n, k, j, i>>, <<n, k, j, i + 1>>,
    <<n, k, j, i + 2>>>>
StencilX2(n, k, j, i) ==
  <<<<n, k, j - 2, i>>, <<n, k, j - 1, i>>, <<n, k, j, i>>, <<n, k, j + 1, i>>,
    <<n, k, j + 2, i>>>>
StencilX3(n, k, j, i) ==
  <<<<n, k - 2, j, i>>, <<n, k - 1, j, i>>, <<n, k, j, i>>, <<n, k + 1, j, i>>,
    <<n, k + 2, j, i>>>>

KernelOn(st) == PPMAt(st[1], st[2], st[3], st[4], st[5])

\* faulty variant: the left state is stored in row 0 whatever the variable n
Invoke_row0(b, n, i, st, li, ri) ==
  LET r == KernelOn(st)
      old == b
  IN  [ql |-> [old.ql EXCEPT ![<<0, li>>] = r.ql_ip1],
       qr |-> [old.qr EXCEPT ![<<n, ri>>] = r.qr_i],
       calls |-> [old.calls EXCEPT ![<<n, i>>] = @ + 1],
       wl |-> [old.wl EXCEPT ![<<0, li>>] = @ + 1],
       wr |-> [old.wr EXCEPT ![<<n, ri>>] = @ + 1],
       reads |-> old.reads \cup {st[m] : m \in 1 .. 5}]

\* One invocation of the lambda: PPM on the stencil st, its left state stored
\* at ql(n, li) and its right state at qr(n, ri).  b holds the buffers and
\* the history: calls per (n, i), writes per buffer cell, cells of q read.
Invoke(b, n, i, st, li, ri) ==
  LET r == KernelOn(st)
      old == b
  IN  [ql |-> [old.ql EXCEPT ![<<n, li>>] = r.ql_ip1],
       qr |-> [old.qr EXCEPT ![<<n, ri>>] = r.qr_i],
       calls |-> [old.calls EXCEPT ![<<n, i>>] = @ + 1],
       wl |-> [old.wl EXCEPT ![<<n, li>>] = @ + 1],
       wr |-> [old.wr EXCEPT ![<<n, ri>>] = @ + 1],
       reads |-> old.reads \cup {st[m] : m \in 1 .. 5}]

\* faulty variant: X1 stores the left state at ql(n, i)
LambdaX1_unshifted(b, n, k, j, i) ==
  Invoke(b, n, i, StencilX1(n, k, j, i), i, i)
\* faulty variant: X2 stores the left state at ql_jp1(n, i + 1)
LambdaX2_shifted(b, n, k, j, i) ==
  Invoke(b, n, i, StencilX2(n, k, j, i), i + 1, i)

LambdaX1(b, n, k, j, i) == Invoke(b, n, i, StencilX1(n, k, j, i), i + 1, i)
LambdaX2(b, n, k, j, i) == Invoke(b, n, i, StencilX2(n, k, j, i), i, i)
LambdaX3(b, n, k, j, i) == Invoke(b, n, i, StencilX3(n, k, j, i), i, i)

Lambda(d, b, n, k, j, i) ==
  CASE d = 1 -> LambdaX1(b, n, k, j, i)
    [] d = 2 -> LambdaX2(b, n, k, j, i)
    [] OTHER -> LambdaX3(b, n, k, j, i)

Start ==
  [ql |-> [s \in Slots |-> Unwritten], qr |-> [s \in Slots |-> Unwritten],
   calls |-> [s \in Slots |-> 0], wl |-> [s \in Slots |-> 0],
   wr |-> [s \in Slots |-> 0], reads |-> {}]

Current ==
  [ql |-> ql, qr |-> qr, calls |-> trace.calls, wl |-> trace.wl,
   wr |-> trace.wr, reads |-> trace.reads]

\* the loops run in sequence: for n in 0 .. nvar - 1, for i in il .. iu
RECURSIVE Sequential(_, _, _, _)
Sequential(d, b, n, i) ==
  IF n >= NVar THEN b
  ELSE IF i > iu THEN Sequential(d, b, n + 1, il)
  ELSE Sequential(d, Lambda(d, b, n, kc, jc, i), n, i + 1)

NoKernel ==
  /\ stencil = <<>> /\ pc = "idle" /\ loc = NoLocals /\ mirror = NoLocals

Init ==
  /\ NoKernel
  /\ dir \in 1 .. 3
  /\ il \in {is - 1, is}
  /\ iu \in {ie, ie + 1}
  /\ \E seed \in 0 .. NSeeds - 1 : q = FieldOf(seed)
  /\ ql = Start.ql
  /\ qr = Start.qr
  /\ lane = [i \in Line |-> 0]
  /\ trace = [calls |-> Start.calls, wl |-> Start.wl, wr |-> Start.wr,
              reads |-> Start.reads]

\* iteration i of par_for_inner runs the lambda for its next variable n
Step(i, b) ==
  /\ ql' = b.ql
  /\ qr' = b.qr
  /\ trace' = [calls |-> b.calls, wl |-> b.wl, wr |-> b.wr, reads |-> b.reads]
  /\ lane' = [lane EXCEPT ![i] = @ + 1]
  /\ UNCHANGED <<dir, il, iu, q>>
  /\ UNCHANGED kernelVars

PiecewiseParabolicX1(i) ==
  /\ dir = 1
  /\ i \in il .. iu
  /\ lane[i] < NVar
  /\ Step(i, LambdaX1(Current, lane[i], kc, jc, i))

PiecewiseParabolicX2(i) ==
  /\ dir = 2
  /\ i \in il .. iu
  /\ lane[i] < NVar
  /\ Step(i, LambdaX2(Current, lane[i], kc, jc, i))

PiecewiseParabolicX3(i) ==
  /\ dir = 3
  /\ i \in il .. iu
  /\ lane[i] < NVar
  /\ Step(i, LambdaX3(Current, lane[i], kc, jc, i))

Next ==
  \E i \in Line :
    \/ PiecewiseParabolicX1(i)
    \/ PiecewiseParabolicX2(i)
    \/ PiecewiseParabolicX3(i)

Spec == Init /\ [][Next]_vars

SweepDone == dir # 0 /\ \A i \in il .. iu : lane[i] = NVar

(***************************************************************************)
(* Properties of the kernel, checked under SpecPPM.                        *)
(***************************************************************************)
\* the stencil (a, b, c, d, e) = (S(1), ..., S(5)) of the call that returned
S(m) == R(stencil[m])
Returned == pc = "done"
Between(x, u, v) == Le(min(u, v), x) /\ Le(x, max(u, v))
Lo3 == min(S(2), min(S(3), S(4)))
Hi3 == max(S(2), max(S(3), S(4)))
InRange3(x) == Le(Lo3, x) /\ Le(x, Hi3)

\* C1: when PPM has run on a stencil and then on the reversed stencil, the
\* left state of either call equals the right state of the other.
MirrorSymmetry ==
  (Returned /\ mirror # NoLocals) =>
     /\ loc.ql_ip1 = mirror.qr_i
     /\ loc.qr_i = mirror.ql_ip1

\* C1 witness: both calls returned; the first one replaced the face value at
\* i+1/2 in step 2 with a nonzero limited curvature and clipped the minus
\* state in step 4, and the two output states differ.
MirrorSymmetryWitness ==
  /\ Returned /\ mirror # NoLocals
  /\ mirror.ext_p /\ mirror.qd_p # Zero
  /\ mirror.clip_m /\ loc.clip_p
  /\ loc.ql_ip1 # loc.qr_i

IsAffine ==
  \A m \in 1 .. 3 : stencil[m + 1] - stencil[m] = stencil[m + 2] - stencil[m + 1]

\* C2: on a stencil q[i+m] = A + B*m the right state is (q_im1 + q_i)/2 and
\* the left state is (q_i + q_ip1)/2; with B = 0 both are the common value.
AffineReproduction ==
  (Returned /\ IsAffine) =>
     /\ loc.qr_i = Rat(stencil[2] + stencil[3], 2)
     /\ loc.ql_ip1 = Rat(stencil[3] + stencil[4], 2)

\* C2 witness: PPM returned on an affine stencil of nonzero slope.
AffineReproductionWitness ==
  Returned /\ IsAffine /\ stencil[2] # stencil[1]

\* step 2 applied no smooth-extremum correction at either face: no extremum
\* was detected there, or the limited curvature qd it used is zero
NoFaceCurvature ==
  /\ ~loc.ext_m \/ loc.qd_m = Zero
  /\ ~loc.ext_p \/ loc.qd_p = Zero

\* C3 as stated: whenever step 4 does not rescale (it clips, or it finds an
\* extremum with rho above 1 - 1e-12), both outputs lie in
\* [min(b,c,d), max(b,c,d)].
BoundedOutputUnlessRescaled ==
  (Returned /\ loc.branch \in {"clip", "keep"}) =>
     InRange3(loc.qr_i) /\ InRange3(loc.ql_ip1)

\* C3 amended: whenever step 4 does not rescale and step 2 applied no
\* nonzero limited curvature at either face, both outputs lie in
\* [min(b,c,d), max(b,c,d)].
BoundedOutputNoExtremumCorrection ==
  (Returned /\ loc.branch \in {"clip", "keep"} /\ NoFaceCurvature) =>
     InRange3(loc.qr_i) /\ InRange3(loc.ql_ip1)

\* C3 witness: step 4 clipped the minus state, step 2 left both faces
\* without limited curvature, and the centre cell is not an end of the range.
BoundedOutputWitness ==
  /\ Returned /\ loc.branch = "clip" /\ NoFaceCurvature
  /\ loc.clip_m
  /\ loc.qr_i # loc.dph

NonDecreasing == \A m \in 1 .. 4 : stencil[m] <= stencil[m + 1]
NonIncreasing == \A m \in 1 .. 4 : stencil[m] >= stencil[m + 1]

\* C4: on a non-decreasing stencil b <= qr_i <= c <= ql_ip1 <= d, and on a
\* non-increasing stencil b >= qr_i >= c >= ql_ip1 >= d.
MonotonicityPreserved ==
  /\ (Returned /\ NonDecreasing) =>
        /\ Le(S(2), loc.qr_i) /\ Le(loc.qr_i, S(3))
        /\ Le(S(3), loc.ql_ip1) /\ Le(loc.ql_ip1, S(4))
  /\ (Returned /\ NonIncreasing) =>
        /\ Le(loc.qr_i, S(2)) /\ Le(S(3), loc.qr_i)
        /\ Le(loc.ql_ip1, S(3)) /\ Le(S(4), loc.ql_ip1)

\* C4 witness: PPM returned on the stencil (1,1,1,2,3), whose unlimited face
\* value at i-1/2 undershoots 1, with right state 1 and left state 1.
MonotonicityWitness ==
  /\ Returned /\ stencil = <<1, 1, 1, 2, 3>>
  /\ Lt(loc.dph_cw, R(1))
  /\ loc.qr_i = R(1) /\ loc.ql_ip1 = R(1)

StrictExtremum ==
  (stencil[4] - stencil[3]) * (stencil[3] - stencil[2]) < 0
CurvaturesShareSign ==
  /\ SIGN(loc.d2qc_im1) = SIGN(loc.d2qc)
  /\ SIGN(loc.d2qc_im1) = SIGN(loc.d2qc_ip1)
  /\ SIGN(loc.d2qc_im1) = SIGN(loc.d2qf)

\* C5: when the centre cell is a strict local extremum of its neighbours and
\* d2qc_im1, d2qc, d2qc_ip1, d2qf do not all share one sign, both outputs
\* equal q_i; on (1,2,3,2,1) both are 3 and the unlimited face value is 8/3.
NonSmoothExtremumFlattened ==
  /\ (Returned /\ StrictExtremum /\ ~CurvaturesShareSign) =>
        loc.qr_i = S(3) /\ loc.ql_ip1 = S(3)
  /\ (Returned /\ stencil = <<1, 2, 3, 2, 1>>) =>
        /\ loc.dph_cw = Rat(8, 3) /\ loc.dph_ip1_cw = Rat(8, 3)
        /\ loc.qr_i = R(3) /\ loc.ql_ip1 = R(3)

\* C5 witness: a strict extremum where d2qc, d2qc_ip1 and d2qf share a
\* sign that d2qc_im1 opposes, and both faces differ from q_i before step 4.
NonSmoothExtremumWitness ==
  /\ Returned /\ StrictExtremum /\ ~CurvaturesShareSign
  /\ SIGN(loc.d2qc) = SIGN(loc.d2qc_ip1)
  /\ SIGN(loc.d2qc) = SIGN(loc.d2qf)
  /\ SIGN(loc.d2qc_im1) = Mul(R(-1), SIGN(loc.d2qc))
  /\ loc.dph # S(3) /\ loc.dph_ip1 # S(3)
  /\ loc.qr_i = S(3) /\ loc.ql_ip1 = S(3)

\* max(|q_im2|, |q_im1|, |q_i|, |q_ip1|, |q_ip2|)
StencilScale ==
  max(max(abs(S(1)), abs(S(2))), max(max(abs(S(3)), abs(S(4))), abs(S(5))))

\* C9: rho is 0 whenever |d2qf| <= 1e-12 * max|q|; otherwise rho is qe/d2qf
\* and lies in [0, 1]; the rescaled states q_i - rho*dqf_minus and
\* q_i + rho*dqf_plus lie between q_i and the step-2 face values.
RoundoffGuardBoundedRatio ==
  Returned =>
     /\ ~ExceedsRoundoff(abs(loc.d2qf), StencilScale) => loc.rho = Zero
     /\ ExceedsRoundoff(abs(loc.d2qf), StencilScale) =>
           /\ loc.rho = Div(loc.qe, loc.d2qf)
           /\ Le(Zero, loc.rho) /\ Le(loc.rho, R(1))
     /\ Between(loc.tmp_m, S(3), loc.dph)
     /\ Between(loc.tmp_p, S(3), loc.dph_ip1)

\* C9 witness: the guard held back the division on a stencil whose faces
\* differ from q_i, and the rescaled states were emitted.
RoundoffGuardWitness ==
  /\ Returned /\ ~ExceedsRoundoff(abs(loc.d2qf), StencilScale)
  /\ loc.dph # S(3) /\ loc.dph_ip1 # S(3)
  /\ loc.branch = "rescale"
  /\ loc.qr_i = S(3) /\ loc.ql_ip1 = S(3)

\* C10: in the no-extremum branch at most one clip fires, each emitted state
\* is within twice the other's distance from q_i, the two lie on opposite
\* sides of q_i, and neither is farther from q_i than before the clip.
MonotoneParabolaAfterClip ==
  (Returned /\ loc.branch = "clip") =>
     /\ ~(loc.clip_m /\ loc.clip_p)
     /\ Le(abs(Sub(S(3), loc.qr_i)), Mul(R(2), abs(Sub(loc.ql_ip1, S(3)))))
     /\ Le(abs(Sub(loc.ql_ip1, S(3))), Mul(R(2), abs(Sub(S(3), loc.qr_i))))
     /\ Lt(Zero, Mul(Sub(S(3), loc.qr_i), Sub(loc.ql_ip1, S(3))))
     /\ Le(abs(Sub(S(3), loc.qr_i)), abs(loc.dqf_minus))
     /\ Le(abs(Sub(loc.ql_ip1, S(3))), abs(loc.dqf_plus))

\* C10 witness: the no-extremum branch clipped the plus state strictly.
MonotoneParabolaWitness ==
  /\ Returned /\ loc.branch = "clip"
  /\ loc.clip_p
  /\ Lt(abs(Sub(loc.ql_ip1, S(3))), abs(loc.dqf_plus))

(***************************************************************************)
(* Properties of the sweep, checked under Spec.                            *)
(***************************************************************************)
\* the lambda has run for variable n at index i
Ran(n, i) == i \in il .. iu /\ lane[i] > n

\* the stencil of (n, i) along the axis of the running driver
StencilOf(n, i) ==
  CASE dir = 1 -> StencilX1(n, kc, jc, i)
    [] dir = 2 -> StencilX2(n, kc, jc, i)
    [] OTHER -> StencilX3(n, kc, jc, i)

\* C6 as stated: each of the three drivers stores the kernel's left state of
\* (n, i) at left-buffer index i + 1 and its right state at right-buffer
\* index i.
IndexConventionAllShifted ==
  \A n \in Vars, i \in Line :
    Ran(n, i) =>
      LET r == KernelOn(StencilOf(n, i))
      IN  /\ ql[<<n, i + 1>>] = r.ql_ip1
          /\ qr[<<n, i>>] = r.qr_i

\* C6 amended: X1 stores the left state of (n, i) at ql(n, i + 1); X2 and X3
\* store it at ql_jp1(n, i) and ql_kp1(n, i); all three store the right
\* state at index i; the stencil runs along i, j, k respectively.
IndexConvention ==
  \A n \in Vars, i \in Line :
    Ran(n, i) =>
      LET r == KernelOn(StencilOf(n, i))
      IN  /\ ql[<<n, IF dir = 1 THEN i + 1 ELSE i>>] = r.ql_ip1
          /\ qr[<<n, i>>] = r.qr_i

\* C6 witness: X2 has run (n, i) and holds its left state at index i, while
\* index i + 1 holds something else.
IndexConventionWitness ==
  /\ dir = 2
  /\ \E n \in Vars, i \in Line :
       /\ Ran(n, i)
       /\ ql[<<n, i>>] = KernelOn(StencilX2(n, kc, jc, i)).ql_ip1
       /\ ql[<<n, i + 1>>] # KernelOn(StencilX2(n, kc, jc, i)).ql_ip1

\* C7: X1 over [is-1, ie+1] writes only ql[is, ie+2] and qr[is-1, ie+1],
\* reads q only at i in [is-3, ie+3] of the line (k, j), and when it is done
\* ql(n, i) holds the left state of the kernel centred on i - 1 and qr(n, i)
\* the right state of the kernel centred on i, for every n and i in
\* [is, ie]; X1 over [is, ..] never writes ql(n, is).
RangeCoverageX1 ==
  /\ (dir = 1 /\ il = is - 1 /\ iu = ie + 1) =>
        /\ \A s \in Slots :
             /\ (trace.wl[s] > 0 \/ ql[s] # Unwritten) => s[2] \in is .. ie + 2
             /\ (trace.wr[s] > 0 \/ qr[s] # Unwritten) => s[2] \in is - 1 .. ie + 1
        /\ \A c \in trace.reads :
             c[2] = kc /\ c[3] = jc /\ c[4] \in is - 3 .. ie + 3
        /\ SweepDone =>
             \A n \in Vars, i \in is .. ie :
               /\ trace.wl[<<n, i>>] = 1 /\ trace.wr[<<n, i>>] = 1
               /\ ql[<<n, i>>] = KernelOn(StencilX1(n, kc, jc, i - 1)).ql_ip1
               /\ qr[<<n, i>>] = KernelOn(StencilX1(n, kc, jc, i)).qr_i
  /\ (dir = 1 /\ il = is) =>
        \A n \in Vars : ql[<<n, is>>] = Unwritten /\ trace.wl[<<n, is>>] = 0

\* C7 witness: X1 has finished over [is-1, ie+1], having read the cells
\* is-3 and ie+3 and written ql(n, ie+2) and qr(n, is-1).
RangeCoverageWitness ==
  /\ dir = 1 /\ il = is - 1 /\ iu = ie + 1 /\ SweepDone
  /\ <<0, kc, jc, is - 3>> \in trace.reads
  /\ <<0, kc, jc, ie + 3>> \in trace.reads
  /\ ql[<<0, ie + 2>>] # Unwritten /\ qr[<<0, is - 1>>] # Unwritten

\* C8: the lambda runs at most once per (n, i), and exactly once for each
\* n and i in [il, iu] when the sweep is done; no cell of either buffer is
\* written twice; the field array keeps its initial content; and whatever
\* the order of the iterations, the finished sweep leaves the buffers (and
\* history) of the loops run in sequence.
RaceFreedom ==
  /\ \A s \in Slots :
       trace.calls[s] <= 1 /\ trace.wl[s] <= 1 /\ trace.wr[s] <= 1
  /\ \E seed \in 0 .. NSeeds - 1 : q = FieldOf(seed)
  /\ SweepDone =>
       /\ \A s \in Slots :
            trace.calls[s] = IF s[2] \in il .. iu THEN 1 ELSE 0
       /\ Current = Sequential(dir, Start, 0, il)

\* C8 witness: a sweep over at least three indices is done.
RaceFreedomWitness ==
  /\ SweepDone /\ iu - il >= 2
  /\ \A n \in Vars : trace.calls[<<n, iu>>] = 1 /\ trace.wr[<<n, il>>] = 1

=============================================================================
